---- MODULE Spec2Model ----
(***************************************************************************)
(* Model of the insurance brochure processor (src/model.py).               *)
(*                                                                         *)
(* Strings are sequences of one-character strings.  The regular            *)
(* expressions of the source are transcribed node by node into patterns    *)
(* and run by a backtracking matcher with the semantics of Python's re     *)
(* module: leftmost match, alternatives and repetition counts tried in     *)
(* priority order, greedy and lazy quantifiers, capturing groups,          *)
(* lookahead and "$".  Every pattern of the source carries the (?i) flag   *)
(* or has no letters in it, so the matcher compares characters             *)
(* case-insensitively throughout.                                          *)
(***************************************************************************)
EXTENDS Integers, Sequences, FiniteSets, TLC

(***************************************************************************)
(* Characters                                                              *)
(***************************************************************************)
\* U+2022, the bullet glyph of the item patterns.
Bullet == "\\u2022"

UpperLetters == <<"A","B","C","D","E","F","G","H","I","J","K","L","M","N","O","P","Q","R","S","T","U","V","W","X","Y","Z">>
LowerLetters == <<"a","b","c","d","e","f","g","h","i","j","k","l","m","n","o","p","q","r","s","t","u","v","w","x","y","z">>

Letters == {UpperLetters[i] : i \in 1..26} \cup {LowerLetters[i] : i \in 1..26}

Digits == {"0", "1", "2", "3", "4", "5", "6", "7", "8", "9"}

\* \s of a str pattern, and the characters str.strip() removes.
Whitespace == {" ", "\t", "\n", "\r", "\f"}

FoldMap == [c \in {UpperLetters[i] : i \in 1..26} |->
               LowerLetters[CHOOSE i \in 1..26 : UpperLetters[i] = c]]

\* re.IGNORECASE: characters are compared by their lower-case form.
Fold(c) == IF c \in DOMAIN FoldMap THEN FoldMap[c] ELSE c

(***************************************************************************)
(* Patterns: a pattern is a sequence of nodes.                             *)
(***************************************************************************)
\* A character class with a repetition count; max = -1 is "no upper limit".
Cls(neg, cs, min, max, lazy) ==
    [k |-> "set", neg |-> neg, cs |-> {Fold(c) : c \in cs},
     min |-> min, max |-> max, lazy |-> lazy]

One(cs)     == <<Cls(FALSE, cs, 1, 1, FALSE)>>
Opt(cs)     == <<Cls(FALSE, cs, 0, 1, FALSE)>>
Star(cs)    == <<Cls(FALSE, cs, 0, -1, FALSE)>>
Plus(cs)    == <<Cls(FALSE, cs, 1, -1, FALSE)>>
AtLeast(cs, n) == <<Cls(FALSE, cs, n, -1, FALSE)>>
NotOne(cs)  == <<Cls(TRUE, cs, 1, 1, FALSE)>>
NotStar(cs) == <<Cls(TRUE, cs, 0, -1, FALSE)>>
NotPlus(cs) == <<Cls(TRUE, cs, 1, -1, FALSE)>>
\* ".*?" without DOTALL (nl = {"\n"}) or with it (nl = {}).
LazyStar(nl) == <<Cls(TRUE, nl, 0, -1, TRUE)>>

\* A literal string: one node.
Lit(s) == <<[k |-> "lit", s |-> [i \in 1..Len(s) |-> Fold(s[i])]]>>

\* (?:a|b|...) and (?:a|b|...)?
Alt(alts)    == <<[k |-> "alt", alts |-> alts, opt |-> FALSE]>>
OptAlt(alts) == <<[k |-> "alt", alts |-> alts, opt |-> TRUE]>>
\* ( ... ) as capturing group g
Group(g, p) == <<[k |-> "open", g |-> g]>> \o p \o <<[k |-> "close", g |-> g]>>
\* (?= ... )
Look(p) == <<[k |-> "look", p |-> p]>>
\* $
Eos == <<[k |-> "eos"]>>

(***************************************************************************)
(* The matcher                                                             *)
(***************************************************************************)
NoMatch == [ok |-> FALSE]

NoGroups == [g \in 1..2 |-> <<0, 0>>]

Min(S) == CHOOSE x \in S : \A y \in S : x <= y
Max(S) == CHOOSE x \in S : \A y \in S : x >= y

InClass(n, c) == (Fold(c) \in n.cs) # n.neg

\* The literal s at position pos of t.
LitAt(t, s, pos) ==
    pos + Len(s) - 1 <= Len(t) /\ \A j \in 1..Len(s) : Fold(t[pos + j - 1]) = s[j]

\* "$" without re.MULTILINE: the end of the string, or just before a
\* newline that ends the string.
AtEos(t, pos) == pos = Len(t) + 1 \/ (pos = Len(t) /\ t[pos] = "\n")

\* The number of characters from pos on that node n can take, at most n.max.
Run(t, n, pos) ==
    LET last == IF n.max = -1 \/ pos + n.max - 1 > Len(t)
                THEN Len(t) ELSE pos + n.max - 1
        stop == CHOOSE j \in pos..(last + 1) :
                    /\ j = last + 1 \/ ~InClass(n, t[j])
                    /\ \A i \in pos..(j - 1) : InClass(n, t[i])
    IN stop - pos

RECURSIVE MatchAt(_, _, _, _, _), TakeCount(_, _, _, _, _, _),
          TryAlts(_, _, _, _, _, _, _)

\* Pattern p from node i on, against t from position pos on: the first
\* match in backtracking order, or NoMatch.  A repetition tries its counts
\* from the longest down (greedy) or from the shortest up (lazy).
MatchAt(t, p, i, pos, caps) ==
    IF i > Len(p) THEN [ok |-> TRUE, end |-> pos, caps |-> caps]
    ELSE LET n == p[i] IN
      CASE n.k = "lit" ->
             IF LitAt(t, n.s, pos) THEN MatchAt(t, p, i + 1, pos + Len(n.s), caps)
             ELSE NoMatch
        [] n.k = "set" ->
             TakeCount(t, p, i, pos, caps,
                       {k \in n.min..Run(t, n, pos) :
                          MatchAt(t, p, i + 1, pos + k, caps).ok})
        [] n.k = "open" ->
             MatchAt(t, p, i + 1, pos, [caps EXCEPT ![n.g] = <<pos, 0>>])
        [] n.k = "close" ->
             MatchAt(t, p, i + 1, pos, [caps EXCEPT ![n.g] = <<caps[n.g][1], pos>>])
        [] n.k = "alt" ->
             TryAlts(t, n.alts, 1, n.opt, SubSeq(p, i + 1, Len(p)), pos, caps)
        [] n.k = "look" ->
             IF MatchAt(t, n.p, 1, pos, caps).ok
             THEN MatchAt(t, p, i + 1, pos, caps) ELSE NoMatch
        [] n.k = "eos" ->
             IF AtEos(t, pos) THEN MatchAt(t, p, i + 1, pos, caps) ELSE NoMatch

\* Of the repetition counts ks with which the rest of the pattern matches,
\* node i takes the largest (greedy) or the smallest (lazy).
TakeCount(t, p, i, pos, caps, ks) ==
    IF ks = {} THEN NoMatch
    ELSE MatchAt(t, p, i + 1, pos + (IF p[i].lazy THEN Min(ks) ELSE Max(ks)), caps)

\* Alternatives in their written order, then (for an optional group) none.
\* An alternative that cannot match on its own cannot match with the rest
\* of the pattern after it.
TryAlts(t, alts, j, opt, rest, pos, caps) ==
    IF j > Len(alts)
    THEN IF opt THEN MatchAt(t, rest, 1, pos, caps) ELSE NoMatch
    ELSE LET r == IF MatchAt(t, alts[j], 1, pos, caps).ok
                  THEN MatchAt(t, alts[j] \o rest, 1, pos, caps) ELSE NoMatch IN
         IF r.ok THEN r ELSE TryAlts(t, alts, j + 1, opt, rest, pos, caps)

\* A successful search: where the match starts, and what MatchAt found.
Found(u, r) == [ok |-> TRUE, start |-> u, end |-> r.end, caps |-> r.caps]

\* The leftmost of the positions where the pattern matches.
Leftmost(t, p, starts) ==
    IF starts = {} THEN NoMatch
    ELSE Found(Min(starts), MatchAt(t, p, 1, Min(starts), NoGroups))

\* re.search from position s on: the leftmost match.
SearchFrom(t, p, s) ==
    Leftmost(t, p, {u \in s..(Len(t) + 1) : MatchAt(t, p, 1, u, NoGroups).ok})

Search(p, t) == SearchFrom(t, p, 1)

\* match.group(0) and match.group(g)
Group0(t, m) == SubSeq(t, m.start, m.end - 1)
GroupN(t, m, g) == SubSeq(t, m.caps[g][1], m.caps[g][2] - 1)

\* Where the scan goes on after match m: past it, and one further when the
\* match is empty.  (No pattern of the source matches the empty string.)
ScanOn(m) == IF m.end > m.start THEN m.end ELSE m.end + 1

RECURSIVE FindAllFrom(_, _, _), FindAllAfter(_, _, _)
\* re.findall / re.finditer for a pattern with one group: group 1 of the
\* successive non-overlapping matches.
FindAllFrom(t, p, s) == FindAllAfter(t, p, SearchFrom(t, p, s))

FindAllAfter(t, p, m) ==
    IF ~m.ok THEN <<>> ELSE <<GroupN(t, m, 1)>> \o FindAllFrom(t, p, ScanOn(m))

FindAll(p, t) == FindAllFrom(t, p, 1)

RECURSIVE SubFrom(_, _, _, _), SubAfter(_, _, _, _, _)
\* re.sub(p, repl, t) for a literal repl: every non-overlapping match
\* replaced.
SubFrom(t, p, repl, s) == SubAfter(t, p, repl, s, SearchFrom(t, p, s))

SubAfter(t, p, repl, s, m) ==
    IF ~m.ok THEN SubSeq(t, s, Len(t))
    ELSE SubSeq(t, s, m.start - 1) \o repl
         \o SubSeq(t, m.end, Min({ScanOn(m) - 1, Len(t)}))
         \o SubFrom(t, p, repl, ScanOn(m))

Sub(p, repl, t) == SubFrom(t, p, repl, 1)

\* str.strip()
Strip(t) ==
    LET inner == {i \in 1..Len(t) : t[i] \notin Whitespace} IN
    IF inner = {} THEN <<>> ELSE SubSeq(t, Min(inner), Max(inner))

(***************************************************************************)
(* clean_content                                                           *)
(***************************************************************************)
\* r'(?i)CIN:\s*U\d+.*?\n'
CinLine == Lit(<<"C","I","N",":">>) \o Star(Whitespace) \o Lit(<<"U">>) \o Plus(Digits)
           \o LazyStar({"\n"}) \o Lit(<<"\n">>)
\* r'(?i)Trade Logo.*?\n'
TradeLogoLine == Lit(<<"T","r","a","d","e"," ","L","o","g","o">>) \o LazyStar({"\n"}) \o Lit(<<"\n">>)
\* r'\s+'
Spaces == Plus(Whitespace)

\* A variant that strips the text first and removes the lines afterwards.
clean_content_strip_first(text) ==
    Sub(Spaces, <<" ">>, Sub(TradeLogoLine, <<>>, Sub(CinLine, <<>>, Strip(text))))

\* re.sub of the CIN lines, of the Trade Logo lines, of every run of
\* whitespace by one space, then strip().
clean_content(text) ==
    Strip(Sub(Spaces, <<" ">>, Sub(TradeLogoLine, <<>>, Sub(CinLine, <<>>, text))))


(***************************************************************************)
(* Helpers shared by the field extractors                                  *)
(***************************************************************************)
\* A variant that takes, of the patterns that match, the one whose match
\* starts first in the text.
EarliestMatch(ps, t) ==
    LET hits == {k \in 1..Len(ps) : Search(ps[k], t).ok} IN
    IF hits = {} THEN NoMatch
    ELSE LET at(k) == Search(ps[k], t).start
             k == CHOOSE h \in hits :
                     \A g \in hits : at(h) < at(g) \/ (at(h) = at(g) /\ h <= g)
             m == Search(ps[k], t)
         IN [ok |-> TRUE, start |-> m.start, end |-> m.end, caps |-> m.caps, idx |-> k]

RECURSIVE FirstMatchFrom(_, _, _), FirstMatchAfter(_, _, _, _)
\* for pattern in patterns: if match := re.search(pattern, text): ... break
\* The match of the first pattern that matches anywhere, with that
\* pattern's index, or NoMatch.
FirstMatchFrom(ps, t, j) ==
    IF j > Len(ps) THEN NoMatch ELSE FirstMatchAfter(ps, t, j, Search(ps[j], t))

FirstMatchAfter(ps, t, j, m) ==
    IF m.ok THEN [ok |-> TRUE, start |-> m.start, end |-> m.end,
                  caps |-> m.caps, idx |-> j]
    ELSE FirstMatchFrom(ps, t, j + 1)

FirstMatch(ps, t) == FirstMatchFrom(ps, t, 1)

\* match.group(0) / match.group(g) if there is a match, else the default ''
Group0Or(t, m) == IF m.ok THEN Group0(t, m) ELSE <<>>
GroupNOr(t, m, g) == IF m.ok THEN GroupN(t, m, g) ELSE <<>>

\* str.split(c): the pieces between the occurrences of c.
Split(t, c) ==
    LET at == {i \in 1..Len(t) : t[i] = c}
        \* the k-th cut, the 0th before the string and the last after it
        cut(k) == IF k = 0 THEN 0
                  ELSE IF k = Cardinality(at) + 1 THEN Len(t) + 1
                  ELSE CHOOSE i \in at : Cardinality({j \in at : j < i}) = k - 1
    IN [k \in 1..(Cardinality(at) + 1) |-> SubSeq(t, cut(k - 1) + 1, cut(k) - 1)]

RECURSIVE Concat(_)
\* The concatenation of a sequence of sequences.
Concat(ss) == IF ss = <<>> THEN <<>> ELSE Head(ss) \o Concat(Tail(ss))

\* [f(x) for x in xs]
StripAll(xs) == [i \in 1..Len(xs) |-> Strip(xs[i])]

\* r'(?:-|:)?'  and  r'(?:Rs\.?|INR)?'
DashOrColon == Opt({"-", ":"})
Currency == OptAlt(<<Lit(<<"R","s">>) \o Opt({"."}), Lit(<<"I","N","R">>)>>)
\* r'([\d,]+)'
Amount == Group(1, Plus(Digits \cup {","}))

\* The threshold of the item filters: len(...) > 10.
MinItemLen == 10

\* r'(?:•|\d+\.)\s*([^\n.]+)'
ItemPattern == Alt(<<One({Bullet}), Plus(Digits) \o One({"."})>>)
               \o Star(Whitespace) \o Group(1, NotPlus({"\n", "."}))

(***************************************************************************)
(* extract_policy_details                                                  *)
(***************************************************************************)
policy_patterns == <<
    \* r'(?i)TOTAL\s+HEALTH\s+PLAN'
    Lit(<<"T","O","T","A","L">>) \o Plus(Whitespace) \o Lit(<<"H","E","A","L","T","H">>) \o Plus(Whitespace)
      \o Lit(<<"P","L","A","N">>),
    \* r'(?i)(?:policy|plan)\s*(?:name|type)?\s*:?\s*([^\n.]*(?:health|insurance|plan)[^\n.]*)'
    Alt(<<Lit(<<"p","o","l","i","c","y">>), Lit(<<"p","l","a","n">>)>>) \o Star(Whitespace)
      \o OptAlt(<<Lit(<<"n","a","m","e">>), Lit(<<"t","y","p","e">>)>>) \o Star(Whitespace)
      \o Opt({":"}) \o Star(Whitespace)
      \o Group(1, NotStar({"\n", "."})
                  \o Alt(<<Lit(<<"h","e","a","l","t","h">>), Lit(<<"i","n","s","u","r","a","n","c","e">>), Lit(<<"p","l","a","n">>)>>)
                  \o NotStar({"\n", "."})) >>

policy_number_patterns == <<
    \* r'(?i)HDHHLIP\d+V\d+'
    Lit(<<"H","D","H","H","L","I","P">>) \o Plus(Digits) \o Lit(<<"V">>) \o Plus(Digits),
    \* r'(?i)policy\s*(?:number|no|#)\s*:?\s*([A-Z0-9-]+)'
    Lit(<<"p","o","l","i","c","y">>) \o Star(Whitespace)
      \o Alt(<<Lit(<<"n","u","m","b","e","r">>), Lit(<<"n","o">>), Lit(<<"#">>)>>) \o Star(Whitespace)
      \o Opt({":"}) \o Star(Whitespace)
      \o Group(1, Plus(Letters \cup Digits \cup {"-"})) >>

insurer_patterns == <<
    \* r'(?i)(HDFC\s*ERGO[^.]*(?:Insurance|Company)[^.]*)'
    Group(1, Lit(<<"H","D","F","C">>) \o Star(Whitespace) \o Lit(<<"E","R","G","O">>) \o NotStar({"."})
             \o Alt(<<Lit(<<"I","n","s","u","r","a","n","c","e">>), Lit(<<"C","o","m","p","a","n","y">>)>>) \o NotStar({"."})),
    \* r'(?i)(insurance\s*company|insurer)\s*:?\s*([^\n.]*)'
    Group(1, Alt(<<Lit(<<"i","n","s","u","r","a","n","c","e">>) \o Star(Whitespace) \o Lit(<<"c","o","m","p","a","n","y">>),
                   Lit(<<"i","n","s","u","r","e","r">>)>>))
      \o Star(Whitespace) \o Opt({":"}) \o Star(Whitespace)
      \o Group(2, NotStar({"\n", "."})) >>

policy_contact_patterns == <<
    \* r'(?i)toll\s*free\s*:?\s*([0-9 -]+)'
    Lit(<<"t","o","l","l">>) \o Star(Whitespace) \o Lit(<<"f","r","e","e">>) \o Star(Whitespace)
      \o Opt({":"}) \o Star(Whitespace) \o Group(1, Plus(Digits \cup {" ", "-"})),
    \* r'(?i)contact\s*(?:at|on|:)\s*([0-9 -]+)'
    Lit(<<"c","o","n","t","a","c","t">>) \o Star(Whitespace)
      \o Alt(<<Lit(<<"a","t">>), Lit(<<"o","n">>), Lit(<<":">>)>>) \o Star(Whitespace)
      \o Group(1, Plus(Digits \cup {" ", "-"})) >>

\* The record, from the matches of the four pattern lists.
PolicyDetails(text, name, number, insurer, contact) ==
    [policy_name     |-> Strip(Group0Or(text, name)),
     policy_number   |-> Group0Or(text, number),
     insurer_name    |-> Strip(GroupNOr(text, insurer, 1)),
     insurer_contact |-> Strip(GroupNOr(text, contact, 1)),
     issue_date      |-> <<>>,
     expiry_date     |-> <<>>]

\* extract_policy_details after text = self.clean_content(text)
PolicyDetailsOf(text) ==
    PolicyDetails(text, FirstMatch(policy_patterns, text),
                  FirstMatch(policy_number_patterns, text),
                  FirstMatch(insurer_patterns, text),
                  FirstMatch(policy_contact_patterns, text))

extract_policy_details(raw) == PolicyDetailsOf(clean_content(raw))

(***************************************************************************)
(* extract_coverage_details                                                *)
(***************************************************************************)
sum_patterns == <<
    \* r'(?i)sum\s*(?:assured|insured)\s*(?:-|:)?\s*(?:Rs\.?|INR)?\s*([\d,]+)'
    Lit(<<"s","u","m">>) \o Star(Whitespace) \o Alt(<<Lit(<<"a","s","s","u","r","e","d">>), Lit(<<"i","n","s","u","r","e","d">>)>>)
      \o Star(Whitespace) \o DashOrColon \o Star(Whitespace) \o Currency
      \o Star(Whitespace) \o Amount,
    \* r'(?i)(?:coverage|cover)\s*(?:amount|limit)\s*(?:-|:)?\s*(?:Rs\.?|INR)?\s*([\d,]+)'
    Alt(<<Lit(<<"c","o","v","e","r","a","g","e">>), Lit(<<"c","o","v","e","r">>)>>) \o Star(Whitespace)
      \o Alt(<<Lit(<<"a","m","o","u","n","t">>), Lit(<<"l","i","m","i","t">>)>>)
      \o Star(Whitespace) \o DashOrColon \o Star(Whitespace) \o Currency
      \o Star(Whitespace) \o Amount >>

\* r'(?i)(?:benefits covered|covered benefits|what is covered)(.*?)(?:exclusions|what is not covered|section|$)'
\* with re.DOTALL
BenefitSection ==
    Alt(<<Lit(<<"b","e","n","e","f","i","t","s"," ","c","o","v","e","r","e","d">>), Lit(<<"c","o","v","e","r","e","d"," ","b","e","n","e","f","i","t","s">>), Lit(<<"w","h","a","t"," ","i","s"," ","c","o","v","e","r","e","d">>)>>)
    \o Group(1, LazyStar({}))
    \o Alt(<<Lit(<<"e","x","c","l","u","s","i","o","n","s">>), Lit(<<"w","h","a","t"," ","i","s"," ","n","o","t"," ","c","o","v","e","r","e","d">>), Lit(<<"s","e","c","t","i","o","n">>), Eos>>)

\* r'(?i)CIN:|Trade Logo'
BoilerplateMarker == Alt(<<Lit(<<"C","I","N",":">>), Lit(<<"T","r","a","d","e"," ","L","o","g","o">>)>>)

\* len(b.strip()) > 10 and not re.search(r'(?i)CIN:|Trade Logo', b)
KeepBenefit(b) == Len(Strip(b)) > MinItemLen /\ ~Search(BoilerplateMarker, b).ok

\* len(item.strip()) > 10
KeepItem(item) == Len(Strip(item)) > MinItemLen

RECURSIVE SelectBenefits(_), SelectItems(_)
\* [b for b in benefits if KeepBenefit(b)]
SelectBenefits(xs) ==
    IF xs = <<>> THEN <<>>
    ELSE (IF KeepBenefit(Head(xs)) THEN <<Head(xs)>> ELSE <<>>)
         \o SelectBenefits(Tail(xs))
\* [item for item in items if KeepItem(item)]
SelectItems(xs) ==
    IF xs = <<>> THEN <<>>
    ELSE (IF KeepItem(Head(xs)) THEN <<Head(xs)>> ELSE <<>>)
         \o SelectItems(Tail(xs))

\* The items of the benefit section, if there is one.
Benefits(text, benefit_section) ==
    IF benefit_section.ok
    THEN StripAll(SelectBenefits(FindAll(ItemPattern, GroupN(text, benefit_section, 1))))
    ELSE <<>>

\* A variant that also files the benefit items under additional_benefits.
CoverageDetailsWithAdditional(text) ==
    [type                |-> <<"H","e","a","l","t","h"," ","I","n","s","u","r","a","n","c","e">>,
     sum_assured         |-> GroupNOr(text, FirstMatch(sum_patterns, text), 1),
     risks_covered       |-> Benefits(text, Search(BenefitSection, text)),
     additional_benefits |-> Benefits(text, Search(BenefitSection, text))]

\* extract_coverage_details after text = self.clean_content(text)
CoverageDetailsOf(text) ==
    [type                |-> <<"H","e","a","l","t","h"," ","I","n","s","u","r","a","n","c","e">>,
     sum_assured         |-> GroupNOr(text, FirstMatch(sum_patterns, text), 1),
     risks_covered       |-> Benefits(text, Search(BenefitSection, text)),
     additional_benefits |-> <<>>]

extract_coverage_details(raw) == CoverageDetailsOf(clean_content(raw))

(***************************************************************************)
(* extract_premium_info                                                    *)
(***************************************************************************)
premium_patterns == <<
    \* r'(?i)premium\s*(?:amount)?\s*(?:-|:)?\s*(?:Rs\.?|INR)?\s*([\d,]+)'
    Lit(<<"p","r","e","m","i","u","m">>) \o Star(Whitespace) \o OptAlt(<<Lit(<<"a","m","o","u","n","t">>)>>)
      \o Star(Whitespace) \o DashOrColon \o Star(Whitespace) \o Currency
      \o Star(Whitespace) \o Amount,
    \* r'(?i)(?:annual|monthly|quarterly)\s*premium\s*(?:-|:)?\s*(?:Rs\.?|INR)?\s*([\d,]+)'
    Alt(<<Lit(<<"a","n","n","u","a","l">>), Lit(<<"m","o","n","t","h","l","y">>), Lit(<<"q","u","a","r","t","e","r","l","y">>)>>) \o Star(Whitespace)
      \o Lit(<<"p","r","e","m","i","u","m">>)
      \o Star(Whitespace) \o DashOrColon \o Star(Whitespace) \o Currency
      \o Star(Whitespace) \o Amount >>

\* r'(?i)(monthly|quarterly|half-yearly|yearly|annual)\s*(?:premium|payment|basis)'
frequency_pattern ==
    Group(1, Alt(<<Lit(<<"m","o","n","t","h","l","y">>), Lit(<<"q","u","a","r","t","e","r","l","y">>), Lit(<<"h","a","l","f","-","y","e","a","r","l","y">>),
                   Lit(<<"y","e","a","r","l","y">>), Lit(<<"a","n","n","u","a","l">>)>>))
    \o Star(Whitespace) \o Alt(<<Lit(<<"p","r","e","m","i","u","m">>), Lit(<<"p","a","y","m","e","n","t">>), Lit(<<"b","a","s","i","s">>)>>)

grace_patterns == <<
    \* r'(?i)grace\s*period\s*(?:of)?\s*(\d+)\s*(?:days|months)'
    Lit(<<"g","r","a","c","e">>) \o Star(Whitespace) \o Lit(<<"p","e","r","i","o","d">>) \o Star(Whitespace)
      \o OptAlt(<<Lit(<<"o","f">>)>>) \o Star(Whitespace) \o Group(1, Plus(Digits))
      \o Star(Whitespace) \o Alt(<<Lit(<<"d","a","y","s">>), Lit(<<"m","o","n","t","h","s">>)>>),
    \* r'(?i)(\d+)\s*(?:days|months)\s*grace\s*period'
    Group(1, Plus(Digits)) \o Star(Whitespace)
      \o Alt(<<Lit(<<"d","a","y","s">>), Lit(<<"m","o","n","t","h","s">>)>>) \o Star(Whitespace)
      \o Lit(<<"g","r","a","c","e">>) \o Star(Whitespace) \o Lit(<<"p","e","r","i","o","d">>) >>

\* f"{match.group(1)} days"
FormatDays(n) == n \o <<" ","d","a","y","s">>

\* A variant that keeps the matched phrase with the unit the text gives.
GracePeriodAsWritten(text, grace) ==
    IF grace.ok THEN Group0(text, grace) ELSE <<>>

\* f"{match.group(1)} days" if a pattern matched, else the default ''
GracePeriod(text, grace) ==
    IF grace.ok THEN FormatDays(GroupN(text, grace, 1)) ELSE <<>>

\* extract_premium_info after text = self.clean_content(text)
PremiumInfoOf(text) ==
    [amount       |-> GroupNOr(text, FirstMatch(premium_patterns, text), 1),
     frequency    |-> GroupNOr(text, Search(frequency_pattern, text), 1),
     due_dates    |-> <<>>,
     grace_period |-> GracePeriod(text, FirstMatch(grace_patterns, text))]

extract_premium_info(raw) == PremiumInfoOf(clean_content(raw))

(***************************************************************************)
(* extract_exclusions                                                      *)
(***************************************************************************)
\* r'...[^\n]*\n(.*?)(?=\n\s*[A-Z]{2,}|$)' with re.DOTALL: the rest of the
\* heading line, the section body, and the next heading or the end.
SectionBody ==
    NotStar({"\n"}) \o Lit(<<"\n">>) \o Group(1, LazyStar({}))
    \o Look(Alt(<<Lit(<<"\n">>) \o Star(Whitespace) \o AtLeast(Letters, 2), Eos>>))

\* r'(?i)(?:EXCLUSIONS|NOT\s+COVERED|WHAT\s+IS\s+NOT\s+COVERED)' + SectionBody
ExclusionSection ==
    Alt(<<Lit(<<"E","X","C","L","U","S","I","O","N","S">>),
          Lit(<<"N","O","T">>) \o Plus(Whitespace) \o Lit(<<"C","O","V","E","R","E","D">>),
          Lit(<<"W","H","A","T">>) \o Plus(Whitespace) \o Lit(<<"I","S">>) \o Plus(Whitespace)
            \o Lit(<<"N","O","T">>) \o Plus(Whitespace) \o Lit(<<"C","O","V","E","R","E","D">>)>>)
    \o SectionBody

exclusion_patterns == <<
    \* r'(?i)(?:not covered|excluded|exclusions?):\s*([^.]*)'
    Alt(<<Lit(<<"n","o","t"," ","c","o","v","e","r","e","d">>), Lit(<<"e","x","c","l","u","d","e","d">>), Lit(<<"e","x","c","l","u","s","i","o","n">>) \o Opt({"s"})>>)
      \o Lit(<<":">>) \o Star(Whitespace) \o Group(1, NotStar({"."})),
    \* r'(?i)(?:policy does not cover|will not cover):\s*([^.]*)'
    Alt(<<Lit(<<"p","o","l","i","c","y"," ","d","o","e","s"," ","n","o","t"," ","c","o","v","e","r">>), Lit(<<"w","i","l","l"," ","n","o","t"," ","c","o","v","e","r">>)>>)
      \o Lit(<<":">>) \o Star(Whitespace) \o Group(1, NotStar({"."})),
    \* r'(?i)following are (?:not covered|excluded):\s*([^.]*)'
    Lit(<<"f","o","l","l","o","w","i","n","g"," ","a","r","e"," ">>) \o Alt(<<Lit(<<"n","o","t"," ","c","o","v","e","r","e","d">>), Lit(<<"e","x","c","l","u","d","e","d">>)>>)
      \o Lit(<<":">>) \o Star(Whitespace) \o Group(1, NotStar({"."})) >>

\* The items of a section found by a section pattern, if it was found:
\* the bullet and ordinal items of its body, the long ones, stripped.
SectionItems(text, section) ==
    IF section.ok
    THEN StripAll(SelectItems(FindAll(ItemPattern, GroupN(text, section, 1))))
    ELSE <<>>

\* The local list 'exclusions' after the section strategy.
SectionExclusions(text) == SectionItems(text, Search(ExclusionSection, text))

\* len(item) > 10, on items already stripped
RECURSIVE SelectLong(_)
SelectLong(xs) ==
    IF xs = <<>> THEN <<>>
    ELSE (IF Len(Head(xs)) > MinItemLen THEN <<Head(xs)>> ELSE <<>>)
         \o SelectLong(Tail(xs))

\* One match of a fallback pattern: the captured clause split on commas,
\* each piece stripped, the long ones kept.
ClauseItems(clause) == SelectLong(StripAll(Split(clause, ",")))

\* The items of the clauses one fallback pattern captured.
ClausesItems(clauses) == Concat([i \in 1..Len(clauses) |-> ClauseItems(clauses[i])])

\* for pattern in exclusion_patterns: for match in re.finditer(...): extend
InlineExclusions(text) ==
    Concat([j \in 1..Len(exclusion_patterns) |->
              ClausesItems(FindAll(exclusion_patterns[j], text))])

\* if not exclusions: the fallback patterns, only when the section gave nothing
OrInline(text, from_section) ==
    IF from_section = <<>> THEN InlineExclusions(text) ELSE from_section

\* The local list 'exclusions' before the duplicates are removed.
CollectExclusions(text) == OrInline(text, SectionExclusions(text))

RECURSIVE DedupeLast(_)
\* A variant that keeps the last occurrence of an item instead of the first.
DedupeLast(xs) ==
    IF xs = <<>> THEN <<>>
    ELSE IF \E i \in 2..Len(xs) : xs[i] = Head(xs) THEN DedupeLast(Tail(xs))
    ELSE <<Head(xs)>> \o DedupeLast(Tail(xs))

RECURSIVE DedupeFrom(_, _)
\* seen = set(); [x for x in xs if not (x in seen or seen.add(x))]
DedupeFrom(xs, seen) ==
    IF xs = <<>> THEN <<>>
    ELSE IF Head(xs) \in seen THEN DedupeFrom(Tail(xs), seen)
    ELSE <<Head(xs)>> \o DedupeFrom(Tail(xs), seen \cup {Head(xs)})

Dedupe(xs) == DedupeFrom(xs, {})

extract_exclusions(raw) == Dedupe(CollectExclusions(clean_content(raw)))

(***************************************************************************)
(* extract_claims_process                                                  *)
(***************************************************************************)
\* r'(?i)(?:CLAIMS?\s+PROCESS|HOW\s+TO\s+CLAIM|CLAIM\s+PROCEDURE)' + SectionBody
ClaimsSection ==
    Alt(<<Lit(<<"C","L","A","I","M">>) \o Opt({"s"}) \o Plus(Whitespace) \o Lit(<<"P","R","O","C","E","S","S">>),
          Lit(<<"H","O","W">>) \o Plus(Whitespace) \o Lit(<<"T","O">>) \o Plus(Whitespace)
            \o Lit(<<"C","L","A","I","M">>),
          Lit(<<"C","L","A","I","M">>) \o Plus(Whitespace) \o Lit(<<"P","R","O","C","E","D","U","R","E">>)>>)
    \o SectionBody

\* r'(?i)(?:required|necessary)\s*documents?[^:]*:\s*([^.]*)'
DocumentsPattern ==
    Alt(<<Lit(<<"r","e","q","u","i","r","e","d">>), Lit(<<"n","e","c","e","s","s","a","r","y">>)>>) \o Star(Whitespace)
    \o Lit(<<"d","o","c","u","m","e","n","t">>) \o Opt({"s"}) \o NotStar({":"}) \o Lit(<<":">>)
    \o Star(Whitespace) \o Group(1, NotStar({"."}))

claims_contact_patterns == <<
    \* r'(?i)(?:contact|call|reach)[^.]*(?:at|on)?\s*([0-9-]+)'
    Alt(<<Lit(<<"c","o","n","t","a","c","t">>), Lit(<<"c","a","l","l">>), Lit(<<"r","e","a","c","h">>)>>) \o NotStar({"."})
      \o OptAlt(<<Lit(<<"a","t">>), Lit(<<"o","n">>)>>) \o Star(Whitespace)
      \o Group(1, Plus(Digits \cup {"-"})),
    \* r'(?i)toll\s*free\s*:?\s*([0-9-]+)'
    Lit(<<"t","o","l","l">>) \o Star(Whitespace) \o Lit(<<"f","r","e","e">>) \o Star(Whitespace)
      \o Opt({":"}) \o Star(Whitespace) \o Group(1, Plus(Digits \cup {"-"})) >>

time_patterns == <<
    \* r'(?i)(?:settle|settlement|process).*?within\s*(\d+)\s*(?:days|hours|weeks)'
    Alt(<<Lit(<<"s","e","t","t","l","e">>), Lit(<<"s","e","t","t","l","e","m","e","n","t">>), Lit(<<"p","r","o","c","e","s","s">>)>>)
      \o LazyStar({"\n"}) \o Lit(<<"w","i","t","h","i","n">>) \o Star(Whitespace)
      \o Group(1, Plus(Digits)) \o Star(Whitespace)
      \o Alt(<<Lit(<<"d","a","y","s">>), Lit(<<"h","o","u","r","s">>), Lit(<<"w","e","e","k","s">>)>>),
    \* r'(?i)(?:TAT|turnaround time)\s*:?\s*(\d+)\s*(?:days|hours|weeks)'
    Alt(<<Lit(<<"T","A","T">>), Lit(<<"t","u","r","n","a","r","o","u","n","d"," ","t","i","m","e">>)>>) \o Star(Whitespace)
      \o Opt({":"}) \o Star(Whitespace)
      \o Group(1, Plus(Digits)) \o Star(Whitespace)
      \o Alt(<<Lit(<<"d","a","y","s">>), Lit(<<"h","o","u","r","s">>), Lit(<<"w","e","e","k","s">>)>>) >>

\* claims_info['documents']: the captured clause split on commas
Documents(section_text, doc_match) ==
    IF doc_match.ok THEN StripAll(Split(GroupN(section_text, doc_match, 1), ","))
    ELSE <<>>

\* The fields read from the text of the claims section.
ClaimsInfo(section_text, steps) ==
    [steps     |-> steps,
     documents |-> Documents(section_text, Search(DocumentsPattern, section_text)),
     contact   |-> GroupNOr(section_text,
                            FirstMatch(claims_contact_patterns, section_text), 1),
     timeframe |-> GracePeriod(section_text, FirstMatch(time_patterns, section_text))]

\* if claims_section: ... ; without a section the defaults stay.
ClaimsOf(text, claims_section) ==
    IF claims_section.ok
    THEN ClaimsInfo(GroupN(text, claims_section, 1), SectionItems(text, claims_section))
    ELSE [steps |-> <<>>, documents |-> <<>>, contact |-> <<>>, timeframe |-> <<>>]

\* extract_claims_process after text = self.clean_content(text)
ClaimsProcessOf(text) == ClaimsOf(text, Search(ClaimsSection, text))

extract_claims_process(raw) == ClaimsProcessOf(clean_content(raw))

(***************************************************************************)
(* process_insurance_brochure as a state machine                           *)
(***************************************************************************)
VARIABLES
    files,       \* the file system: path -> PDF file
    pdf_path,    \* the argument of process_insurance_brochure
    pc,          \* the position of the call
    raw_text,    \* processor.raw_text
    result,      \* the sub-records computed so far, by key
    exclusions,  \* extract_exclusions' local list before duplicates are removed
    ret,         \* what the call returned
    text,        \* clean_content's argument (the normaliser on its own)
    cleaned,     \* the results of the successive clean_content calls
    request,     \* POST /process-brochure: the handler's position and locals
    responses    \* the status codes of the responses sent so far

vars == <<files, pdf_path, pc, raw_text, result, exclusions, ret, text, cleaned,
         request, responses>>

\* A PDF file the reader can parse, as the lines of text of each of its
\* pages, and one it cannot.
Pdf(pages) == [ok |-> TRUE, pages |-> pages]
CorruptPdf == [ok |-> FALSE, pages |-> <<>>]

Pending == [kind |-> "pending", value |-> <<>>]
\* return None
None == [kind |-> "None", value |-> <<>>]
\* return result
Record(r) == [kind |-> "record", value |-> r]

\* str.lower()
Lower(s) == [i \in 1..Len(s) |-> Fold(s[i])]
\* str.endswith(suffix)
EndsWith(s, suffix) ==
    Len(s) >= Len(suffix) /\ SubSeq(s, Len(s) - Len(suffix) + 1, Len(s)) = suffix

\* page.extract_text(): the lines of the page, a newline between them.
PageText(lines) ==
    Concat([i \in 1..Len(lines) |->
              IF i < Len(lines) THEN lines[i] \o <<"\n">> ELSE lines[i]])

\* for page in pdf_reader.pages: full_text += page.extract_text() + "\n"
JoinPages(pages) ==
    Concat([i \in 1..Len(pages) |-> PageText(pages[i]) \o <<"\n">>])

\* No request is being handled.
NoRequest ==
    [at |-> "idle", filename |-> <<>>, content |-> CorruptPdf, temp_file |-> <<>>]

\* The call starts on path p with file system fs.
Start(fs, p) ==
    /\ files = fs
    /\ pdf_path = p
    /\ pc = "call"
    /\ raw_text = <<>>
    /\ result = <<>>
    /\ exclusions = <<>>
    /\ ret = Pending
    /\ text = <<>>
    /\ cleaned = <<>>
    /\ request = NoRequest
    /\ responses = <<>>

\* A variant of the except clause that hands back what was built so far.
ReturnPartial ==
    /\ ret' = Record(result)
    /\ pc' = "done"

\* except Exception: ... return None
ReturnNone ==
    /\ ret' = None
    /\ pc' = "done"

\* InsuranceBrochureProcessor.__init__: the checks of the path.
CheckPath ==
    /\ pc = "call"
    /\ IF pdf_path \notin DOMAIN files THEN ReturnNone
       ELSE IF ~EndsWith(Lower(pdf_path), <<".","p","d","f">>) THEN ReturnNone
       ELSE pc' = "resources" /\ ret' = ret
    /\ UNCHANGED <<files, pdf_path, raw_text, result, exclusions, text, cleaned,
                 request, responses>>

\* __init__: the NLTK downloads and the spaCy model, either of which may raise.
LoadResources ==
    /\ pc = "resources"
    /\ \E loaded \in BOOLEAN :
         IF loaded THEN pc' = "extract_text" /\ ret' = ret ELSE ReturnNone
    /\ UNCHANGED <<files, pdf_path, raw_text, result, exclusions, text, cleaned,
                 request, responses>>

\* _extract_text: a reader error is re-raised; otherwise the pages' texts,
\* each followed by a newline.
ExtractText ==
    /\ pc = "extract_text"
    /\ IF ~files[pdf_path].ok
       THEN ReturnNone /\ raw_text' = raw_text
       ELSE /\ raw_text' = JoinPages(files[pdf_path].pages)
            /\ pc' = "policy_details"
            /\ ret' = ret
    /\ UNCHANGED <<files, pdf_path, result, exclusions, text, cleaned,
                 request, responses>>

ExtractPolicyDetails ==
    /\ pc = "policy_details"
    /\ result' = result @@ ("policy_details" :> extract_policy_details(raw_text))
    /\ pc' = "coverage_details"
    /\ UNCHANGED <<files, pdf_path, raw_text, exclusions, ret, text, cleaned,
                 request, responses>>

ExtractCoverageDetails ==
    /\ pc = "coverage_details"
    /\ result' = result @@ ("coverage_details" :> extract_coverage_details(raw_text))
    /\ pc' = "premium_info"
    /\ UNCHANGED <<files, pdf_path, raw_text, exclusions, ret, text, cleaned,
                 request, responses>>

ExtractPremiumInfo ==
    /\ pc = "premium_info"
    /\ result' = result @@ ("premium_info" :> extract_premium_info(raw_text))
    /\ pc' = "exclusions"
    /\ UNCHANGED <<files, pdf_path, raw_text, exclusions, ret, text, cleaned,
                 request, responses>>

ExtractExclusions ==
    /\ pc = "exclusions"
    /\ exclusions' = CollectExclusions(clean_content(raw_text))
    /\ result' = result @@ ("exclusions" :> extract_exclusions(raw_text))
    /\ pc' = "claims_process"
    /\ UNCHANGED <<files, pdf_path, raw_text, ret, text, cleaned,
                 request, responses>>

ExtractClaimsProcess ==
    /\ pc = "claims_process"
    /\ result' = result @@ ("claims_process" :> extract_claims_process(raw_text))
    /\ pc' = "return"
    /\ UNCHANGED <<files, pdf_path, raw_text, exclusions, ret, text, cleaned,
                 request, responses>>

\* return result
Return ==
    /\ pc = "return"
    /\ ret' = Record(result)
    /\ pc' = "done"
    /\ UNCHANGED <<files, pdf_path, raw_text, result, exclusions, text, cleaned,
                 request, responses>>

ExtractorSteps ==
    {"policy_details", "coverage_details", "premium_info", "exclusions", "claims_process"}

\* An exception raised inside a field extractor: the except clause of
\* process_insurance_brochure returns None.
Fault ==
    /\ pc \in ExtractorSteps
    /\ ReturnNone
    /\ UNCHANGED <<files, pdf_path, raw_text, result, exclusions, text, cleaned,
                 request, responses>>

Next ==
    \/ CheckPath
    \/ LoadResources
    \/ ExtractText
    \/ ExtractPolicyDetails
    \/ ExtractCoverageDetails
    \/ ExtractPremiumInfo
    \/ ExtractExclusions
    \/ ExtractClaimsProcess
    \/ Return
    \/ Fault

(***************************************************************************)
(* POST /process-brochure (src/app.py)                                     *)
(***************************************************************************)
\* The number of requests handled one after the other.
MaxRequests == 2

\* tempfile's name for the file of the n-th request: a fresh name each time,
\* with the suffix '.pdf'.
TempName(n) ==
    <<"t","m","p">> \o <<(<<"0","1","2","3","4","5","6","7","8","9">>)[n + 1]>> \o <<".","p","d","f">>

\* The response goes out and the request is over.
Respond(status) ==
    /\ responses' = Append(responses, status)
    /\ request' = NoRequest

\* A request arrives with an uploaded file: its name and its content.
Post(filename, content) ==
    /\ request.at = "idle"
    /\ Len(responses) < MaxRequests
    /\ request' = [at |-> "check_name", filename |-> filename, content |-> content,
                   temp_file |-> <<>>]
    /\ UNCHANGED <<files, pdf_path, pc, raw_text, result, exclusions, ret, text,
                   cleaned, responses>>

\* if not file.filename.lower().endswith('.pdf'): raise HTTPException(400)
CheckFilename ==
    /\ request.at = "check_name"
    /\ IF ~EndsWith(Lower(request.filename), <<".","p","d","f">>) THEN Respond(400)
       ELSE request' = [request EXCEPT !.at = "create_temp"] /\ responses' = responses
    /\ UNCHANGED <<files, pdf_path, pc, raw_text, result, exclusions, ret, text, cleaned>>

\* with tempfile.NamedTemporaryFile(delete=False, suffix='.pdf') as temp_file:
\* the file exists, empty, from here on.
CreateTemp ==
    /\ request.at = "create_temp"
    /\ files' = files @@ (TempName(Len(responses) + 1) :> CorruptPdf)
    /\ request' = [request EXCEPT !.at = "read",
                                  !.temp_file = TempName(Len(responses) + 1)]
    /\ UNCHANGED <<pdf_path, pc, raw_text, result, exclusions, ret, text, cleaned,
                   responses>>

\* content = await file.read(); if it raises, the with statement closes the
\* file, which delete=False keeps, and the except clause answers 500.
ReadUpload ==
    /\ request.at = "read"
    /\ \E read \in BOOLEAN :
         IF read THEN request' = [request EXCEPT !.at = "write"] /\ responses' = responses
         ELSE Respond(500)
    /\ UNCHANGED <<files, pdf_path, pc, raw_text, result, exclusions, ret, text, cleaned>>

\* temp_file.write(content); temp_file_path = temp_file.name; a failing
\* write ends like a failing read.
WriteTemp ==
    /\ request.at = "write"
    /\ \E written \in BOOLEAN :
         IF written
         THEN /\ files' = [files EXCEPT ![request.temp_file] = request.content]
              /\ request' = [request EXCEPT !.at = "process"]
              /\ responses' = responses
         ELSE Respond(500) /\ files' = files
    /\ UNCHANGED <<pdf_path, pc, raw_text, result, exclusions, ret, text, cleaned>>

\* result = process_insurance_brochure(temp_file_path): the call starts.
CallPipeline ==
    /\ request.at = "process"
    /\ request' = [request EXCEPT !.at = "processing"]
    /\ pdf_path' = request.temp_file
    /\ pc' = "call"
    /\ raw_text' = <<>>
    /\ result' = <<>>
    /\ exclusions' = <<>>
    /\ ret' = Pending
    /\ UNCHANGED <<files, text, cleaned, responses>>

\* os.unlink(temp_file_path), once the call has returned
Unlink ==
    /\ request.at = "processing"
    /\ pc = "done"
    /\ files' = [p \in DOMAIN files \ {request.temp_file} |-> files[p]]
    /\ request' = [request EXCEPT !.at = "respond"]
    /\ UNCHANGED <<pdf_path, pc, raw_text, result, exclusions, ret, text, cleaned,
                   responses>>

\* if not result: raise HTTPException(500); else return formatted_response
SendResult ==
    /\ request.at = "respond"
    /\ Respond(IF ret = None THEN 500 ELSE 200)
    /\ UNCHANGED <<files, pdf_path, pc, raw_text, result, exclusions, ret, text, cleaned>>

\* The uploads: a brochure, a PDF without pages, bytes that are no PDF, and
\* a file whose name is not a PDF's.
Uploads ==
    {[filename |-> <<"a",".","p","d","f">>, content |-> Pdf(<< <<<<"T","O","T","A","L"," ","H","E","A","L","T","H"," ","P","L","A","N">>, <<"P","o","l","i","c","y"," ","N","o",":"," ","A","B","-","1","2">>>> >>)],
     [filename |-> <<"B",".","P","D","F">>, content |-> Pdf(<<>>)],
     [filename |-> <<"a",".","p","d","f">>, content |-> CorruptPdf],
     [filename |-> <<"c",".","t","x","t">>, content |-> CorruptPdf]}

NextApp ==
    \/ \E u \in Uploads : Post(u.filename, u.content)
    \/ CheckFilename
    \/ CreateTemp
    \/ ReadUpload
    \/ WriteTemp
    \/ CallPipeline
    \/ Next
    \/ Unlink
    \/ SendResult

\* The server starts with no temporary file and no request.
InitApp ==
    /\ files = <<>>
    /\ pdf_path = <<>>
    /\ pc = "idle"
    /\ raw_text = <<>>
    /\ result = <<>>
    /\ exclusions = <<>>
    /\ ret = Pending
    /\ text = <<>>
    /\ cleaned = <<>>
    /\ request = NoRequest
    /\ responses = <<>>

SpecApp == InitApp /\ [][NextApp]_vars

(***************************************************************************)
(* Inputs                                                                  *)
(***************************************************************************)
\* The paths a call is made with: two PDF names and one that is not.
Paths == {<<"a",".","p","d","f">>, <<"B",".","P","D","F">>, <<"c",".","t","x","t">>}

\* The file systems and paths a call on one of the documents docs starts
\* from: the file present under a PDF name, unreadable, absent, or under
\* another name.
Calls(docs) ==
    {<<(<<"a",".","p","d","f">> :> Pdf(d)), <<"a",".","p","d","f">>>> : d \in docs}
    \cup {<<(p :> CorruptPdf), p>> : p \in Paths}
    \cup {<<(<<"B",".","P","D","F">> :> Pdf(<<>>)), p>> : p \in Paths}

InitOn(docs) == \E c \in Calls(docs) : Start(c[1], c[2])

\* The number of pages of a document.
MaxPages == 2

RECURSIVE SeqsUpTo(_, _)
\* The sequences over S of length at most n.
SeqsUpTo(S, n) ==
    IF n = 0 THEN {<<>>}
    ELSE LET shorter == SeqsUpTo(S, n - 1) IN
         shorter \cup {Append(s, x) : s \in shorter, x \in S}

\* Pages of a brochure, each with some of the phrases the rules look for.
\*   "TOTAL HEALTH PLAN" / "Policy No: HDHHLIP21V01" / "CIN: U66030MH" /
\*     "toll free : 1800-266-0700"
\*   "Sum Assured - Rs. 5,00,000" / "Premium Amount: 12,500" /
\*     "grace period of 6 months"
\*   "BENEFITS COVERED" / "(bullet) Hospital room rent." /
\*     "(bullet) Ambulance." / "1. Organ donor cover"
\*   "EXCLUSIONS" / "(bullet) War and nuclear perils" /
\*     "not covered: cosmetic surgery, dental."
\*   "CLAIMS PROCESS" / "1. Intimate the insurer" / "Settlement within 30 days"
\*   "Trade Logo of the company" / "Insurer: Acme"
Pages == {
    <<<<"T","O","T","A","L"," ","H","E","A","L","T","H"," ","P","L","A","N">>, <<"P","o","l","i","c","y"," ","N","o",":"," ","H","D","H","H","L","I","P","2","1","V","0","1">>, <<"C","I","N",":"," ","U","6","6","0","3","0","M","H">>,
      <<"t","o","l","l"," ","f","r","e","e"," ",":"," ","1","8","0","0","-","2","6","6","-","0","7","0","0">>>>,
    <<<<"S","u","m"," ","A","s","s","u","r","e","d"," ","-"," ","R","s","."," ","5",",","0","0",",","0","0","0">>, <<"P","r","e","m","i","u","m"," ","A","m","o","u","n","t",":"," ","1","2",",","5","0","0">>,
      <<"g","r","a","c","e"," ","p","e","r","i","o","d"," ","o","f"," ","6"," ","m","o","n","t","h","s">>>>,
    <<<<"B","E","N","E","F","I","T","S"," ","C","O","V","E","R","E","D">>, <<"\\u2022"," ","H","o","s","p","i","t","a","l"," ","r","o","o","m"," ","r","e","n","t",".">>, <<"\\u2022"," ","A","m","b","u","l","a","n","c","e",".">>,
      <<"1","."," ","O","r","g","a","n"," ","d","o","n","o","r"," ","c","o","v","e","r">>>>,
    <<<<"E","X","C","L","U","S","I","O","N","S">>, <<"\\u2022"," ","W","a","r"," ","a","n","d"," ","n","u","c","l","e","a","r"," ","p","e","r","i","l","s">>,
      <<"n","o","t"," ","c","o","v","e","r","e","d",":"," ","c","o","s","m","e","t","i","c"," ","s","u","r","g","e","r","y",","," ","d","e","n","t","a","l",".">>>>,
    <<<<"C","L","A","I","M","S"," ","P","R","O","C","E","S","S">>, <<"1","."," ","I","n","t","i","m","a","t","e"," ","t","h","e"," ","i","n","s","u","r","e","r">>, <<"S","e","t","t","l","e","m","e","n","t"," ","w","i","t","h","i","n"," ","3","0"," ","d","a","y","s">>>>,
    <<<<"T","r","a","d","e"," ","L","o","g","o"," ","o","f"," ","t","h","e"," ","c","o","m","p","a","n","y">>, <<"I","n","s","u","r","e","r",":"," ","A","c","m","e">>>> }

Init == InitOn(SeqsUpTo(Pages, MaxPages))

Spec == Init /\ [][Next]_vars

(***************************************************************************)
(* Brochures with one section: a heading, item lines, a closing line       *)
(***************************************************************************)
\* The number of item lines of a section.
MaxItems == 2

\* The lines of a section: a bullet glyph or an "N." ordinal, then the item.
\* "Hospital room rent" (18 characters), "Dental care" (11), "Eye checks" (10),
\* "Organ donor cover" (17).
ItemLines == {
    [marker |-> <<Bullet>>, body |-> <<"H","o","s","p","i","t","a","l"," ","r","o","o","m"," ","r","e","n","t">>],
    [marker |-> <<Bullet>>, body |-> <<"D","e","n","t","a","l"," ","c","a","r","e">>],
    [marker |-> <<Bullet>>, body |-> <<"E","y","e"," ","c","h","e","c","k","s">>],
    [marker |-> <<"2",".">>,      body |-> <<"O","r","g","a","n"," ","d","o","n","o","r"," ","c","o","v","e","r">>] }

LineText(l) == l.marker \o <<" ">> \o l.body
Bodies(ls) == [i \in 1..Len(ls) |-> ls[i].body]

BenefitsHeading == <<"B","E","N","E","F","I","T","S"," ","C","O","V","E","R","E","D">>
ExclusionsHeading == <<"E","X","C","L","U","S","I","O","N","S">>
ClaimsHeading == <<"C","L","A","I","M","S"," ","P","R","O","C","E","S","S">>
Headings == {BenefitsHeading, ExclusionsHeading, ClaimsHeading}

\* What follows the items: nothing, a sentence with an inline exclusion
\* phrase, or the sentences on contact and settlement.
\*   "not covered: cosmetic surgery, dental."
\*   "Call us at 1800-266-0700. Settlement within 30 days."
InlineTail == <<<<"n","o","t"," ","c","o","v","e","r","e","d",":"," ","c","o","s","m","e","t","i","c"," ","s","u","r","g","e","r","y",","," ","d","e","n","t","a","l",".">>>>
ClaimsTail == <<<<"C","a","l","l"," ","u","s"," ","a","t"," ","1","8","0","0","-","2","6","6","-","0","7","0","0","."," ","S","e","t","t","l","e","m","e","n","t"," ","w","i","t","h","i","n"," ","3","0"," ","d","a","y","s",".">>>>
Tails == {<<>>, InlineTail, ClaimsTail}

\* The one-page brochure: the heading on a line of its own, one item a
\* line, then the closing line.
SectionDoc(heading, ls, tail) ==
    << <<heading>> \o [i \in 1..Len(ls) |-> LineText(ls[i])] \o tail >>

SectionDocs ==
    {SectionDoc(h, ls, tail) :
        h \in Headings, ls \in SeqsUpTo(ItemLines, MaxItems), tail \in Tails}

InitSections == InitOn(SectionDocs)

SpecSections == InitSections /\ [][Next]_vars

(***************************************************************************)
(* Brochures with one inline exclusion clause                              *)
(***************************************************************************)
\* The number of comma-separated items of a clause.
MaxClauseItems == 3

\* The clause "<lead> <item>, <item>, ... ." on the line after the plan name,
\* with the leads "excluded:", "Not covered:", "Following are excluded:" and
\* the items "cosmetic surgery", "dental treatment" (long) and "war" (short).
ClauseLeads == {<<"e","x","c","l","u","d","e","d",":">>, <<"N","o","t"," ","c","o","v","e","r","e","d",":">>, <<"F","o","l","l","o","w","i","n","g"," ","a","r","e"," ","e","x","c","l","u","d","e","d",":">>}
ClauseItemTexts == {<<"c","o","s","m","e","t","i","c"," ","s","u","r","g","e","r","y">>, <<"d","e","n","t","a","l"," ","t","r","e","a","t","m","e","n","t">>, <<"w","a","r">>}

RECURSIVE JoinWith(_, _)
\* sep.join(xs)
JoinWith(xs, sep) ==
    IF xs = <<>> THEN <<>>
    ELSE IF Len(xs) = 1 THEN xs[1]
    ELSE xs[1] \o sep \o JoinWith(Tail(xs), sep)

ClauseDoc(lead, items) ==
    << <<<<"T","O","T","A","L"," ","H","E","A","L","T","H"," ","P","L","A","N">>, lead \o <<" ">> \o JoinWith(items, <<","," ">>) \o <<".">>>> >>

ClauseDocs ==
    {ClauseDoc(lead, items) :
        lead \in ClauseLeads, items \in SeqsUpTo(ClauseItemTexts, MaxClauseItems)}

InitExclusions == InitOn(ClauseDocs)

SpecExclusions == InitExclusions /\ [][Next]_vars

(***************************************************************************)
(* Brochures with at most one grace-period phrase                          *)
(***************************************************************************)
\* The number of lines before the phrase.
MaxFiller == 1

GraceNumbers == {<<"6">>, <<"3","0">>, <<"0","1","5">>}

\* Lines without any grace-period wording.
\*   "Premium Amount: Rs. 12,500", "Waiting period of 24 months", "CIN: U66030MH"
Filler == {<<"P","r","e","m","i","u","m"," ","A","m","o","u","n","t",":"," ","R","s","."," ","1","2",",","5","0","0">>, <<"W","a","i","t","i","n","g"," ","p","e","r","i","o","d"," ","o","f"," ","2","4"," ","m","o","n","t","h","s">>,
           <<"C","I","N",":"," ","U","6","6","0","3","0","M","H">>}

\* "grace period of N months", "N months grace period", and the same in
\* other letter case, with days, without a space before the unit.
GracePhrases(n) ==
    {<<"g","r","a","c","e"," ","p","e","r","i","o","d"," ","o","f"," ">> \o n \o <<" ","m","o","n","t","h","s">>,
     n \o <<" ","m","o","n","t","h","s"," ","g","r","a","c","e"," ","p","e","r","i","o","d">>,
     <<"G","r","a","c","e"," ","P","e","r","i","o","d"," ","o","f"," ">> \o n \o <<"m","o","n","t","h","s">>,
     n \o <<" ","D","a","y","s"," ","G","r","a","c","e"," ","P","e","r","i","o","d">>}

\* The line after the phrase, if any: "from the due date."
GraceClosings == {<<>>, <<<<"f","r","o","m"," ","t","h","e"," ","d","u","e"," ","d","a","t","e",".">>>>}

GraceDoc(before, phrase, closing) == << before \o <<phrase>> \o closing >>

GraceDocs(n) ==
    {GraceDoc(before, phrase, closing) :
        before \in SeqsUpTo(Filler, MaxFiller), phrase \in GracePhrases(n),
        closing \in GraceClosings}

NoGraceDocs ==
    {<< before \o closing >> :
        before \in SeqsUpTo(Filler, MaxFiller), closing \in GraceClosings}

InitPremium == InitOn(NoGraceDocs \cup UNION {GraceDocs(n) : n \in GraceNumbers})

SpecPremium == InitPremium /\ [][Next]_vars

(***************************************************************************)
(* clean_content applied again to its own result                           *)
(***************************************************************************)
\* The number of fragments a text is made of, and of successive calls.
MaxFrags == 2
MaxPasses == 2

\* "CIN: U66030MH\n", "Trade Logo of the company\n", " Plan A ", "cin:\tu1 x",
\* "Sum  Assured", " ", "\n", "\r\n\t"
Fragments == {<<"C","I","N",":"," ","U","6","6","0","3","0","M","H","\n">>, <<"T","r","a","d","e"," ","L","o","g","o"," ","o","f"," ","t","h","e"," ","c","o","m","p","a","n","y","\n">>, <<" ","P","l","a","n"," ","A"," ">>,
              <<"c","i","n",":","\t","u","1"," ","x">>, <<"S","u","m"," "," ","A","s","s","u","r","e","d">>, <<" ">>, <<"\n">>, <<"\r","\n","\t">>}

CleanTexts == {Concat(fs) : fs \in SeqsUpTo(Fragments, MaxFrags)}

InitClean ==
    /\ files = <<>>
    /\ pdf_path = <<>>
    /\ pc = "clean"
    /\ raw_text = <<>>
    /\ result = <<>>
    /\ exclusions = <<>>
    /\ ret = Pending
    /\ text \in CleanTexts
    /\ cleaned = <<>>
    /\ request = NoRequest
    /\ responses = <<>>

\* t = clean_content(t), on the text and then on each result.
Normalize ==
    /\ pc = "clean"
    /\ Len(cleaned) < MaxPasses
    /\ cleaned' = Append(cleaned, clean_content(IF cleaned = <<>> THEN text
                                                 ELSE cleaned[Len(cleaned)]))
    /\ UNCHANGED <<files, pdf_path, pc, raw_text, result, exclusions, ret, text,
                 request, responses>>

SpecClean == InitClean /\ [][Normalize]_vars

(***************************************************************************)
(* Brochures with labelled policy details                                  *)
(***************************************************************************)
\* The number of lines of the page.
MaxLines == 2

\* For each field a line its first pattern matches and a line only its
\* second pattern decides.
PlanNameLine == <<"T","O","T","A","L"," ","H","E","A","L","T","H"," ","P","L","A","N">>
PlanTypeLine == <<"P","l","a","n"," ","t","y","p","e",":"," ","G","o","l","d"," ","h","e","a","l","t","h"," ","c","o","v","e","r",".">>
PolicyCodeLine == <<"H","D","H","H","L","I","P","2","1","V","0","1">>
PolicyNoLine == <<"P","o","l","i","c","y"," ","N","o",":"," ","A","B","-","1","2">>
InsurerPhraseLine == <<"H","D","F","C"," ","E","R","G","O"," ","G","e","n","e","r","a","l"," ","I","n","s","u","r","a","n","c","e"," ","C","o","m","p","a","n","y",".">>
InsurerLabelLine == <<"I","n","s","u","r","e","r",":"," ","A","c","m","e"," ","A","s","s","u","r","a","n","c","e",".">>
TollFreeLine == <<"t","o","l","l"," ","f","r","e","e",":"," ","1","8","0","0","-","2","6","6">>
ContactLine == <<"c","o","n","t","a","c","t"," ","o","n"," ","9","8","7","6","5">>

PolicyLines ==
    {PlanNameLine, PlanTypeLine, PolicyCodeLine, PolicyNoLine,
     InsurerPhraseLine, InsurerLabelLine, TollFreeLine, ContactLine}

PolicyDoc(ls) == << ls >>

PolicyDocs == {PolicyDoc(ls) : ls \in SeqsUpTo(PolicyLines, MaxLines)}

InitPolicy == InitOn(PolicyDocs)

SpecPolicy == InitPolicy /\ [][Next]_vars

(***************************************************************************)
(* Properties                                                              *)
(***************************************************************************)
\* The call was made on a readable file with these pages.
Input(pages) == pdf_path \in DOMAIN files /\ files[pdf_path] = Pdf(pages)

\* The call returned a record.
Returned == pc = "done" /\ ret.kind = "record"

Range(xs) == {xs[i] : i \in 1..Len(xs)}

TopKeys ==
    {"policy_details", "coverage_details", "premium_info", "exclusions", "claims_process"}

\* All five top-level keys, and every nested key of each sub-record.
Complete(r) ==
    /\ DOMAIN r = TopKeys
    /\ DOMAIN r.policy_details = {"policy_name", "policy_number", "insurer_name",
                                  "insurer_contact", "issue_date", "expiry_date"}
    /\ DOMAIN r.coverage_details = {"type", "sum_assured", "risks_covered",
                                    "additional_benefits"}
    /\ DOMAIN r.premium_info = {"amount", "frequency", "due_dates", "grace_period"}
    /\ DOMAIN r.exclusions = 1..Len(r.exclusions)
    /\ DOMAIN r.claims_process = {"steps", "documents", "contact", "timeframe"}

\* The record whose every field is at its default.
EmptyRecord ==
    ("policy_details" :> [policy_name |-> <<>>, policy_number |-> <<>>,
                          insurer_name |-> <<>>, insurer_contact |-> <<>>,
                          issue_date |-> <<>>, expiry_date |-> <<>>])
    @@ ("coverage_details" :> [type |-> <<"H","e","a","l","t","h"," ","I","n","s","u","r","a","n","c","e">>, sum_assured |-> <<>>,
                               risks_covered |-> <<>>, additional_benefits |-> <<>>])
    @@ ("premium_info" :> [amount |-> <<>>, frequency |-> <<>>, due_dates |-> <<>>,
                           grace_period |-> <<>>])
    @@ ("exclusions" :> <<>>)
    @@ ("claims_process" :> [steps |-> <<>>, documents |-> <<>>, contact |-> <<>>,
                             timeframe |-> <<>>])

\* C1: for every valid PDF input that has zero pages the call returns a
\* failure, never a record whose fields are all at their empty defaults.
C1_ZeroPagesFail ==
    (pc = "done" /\ EndsWith(Lower(pdf_path), <<".","p","d","f">>) /\ Input(<<>>)) => ret = None

\* The call on a valid PDF with zero pages has returned the record with every
\* field at its default.
C1_ZeroPagesRecord ==
    /\ Returned
    /\ EndsWith(Lower(pdf_path), <<".","p","d","f">>)
    /\ Input(<<>>)
    /\ ret.value = EmptyRecord

\* C2: every call ends in exactly one of two outcomes: the failure value, or
\* a complete record with all five top-level keys and every nested key of
\* each sub-record; nothing is returned before the call ends, and a record
\* with a missing key or with only some sub-records is never returned.
C2_FailureOrCompleteRecord ==
    /\ pc # "done" => ret = Pending
    /\ pc = "done" => \/ ret = None
                      \/ ret.kind = "record" /\ Complete(ret.value)

\* A record was returned in which one pattern matched and others did not.
C2_RecordWithUnmatchedFields ==
    /\ Returned
    /\ ret.value.premium_info.amount # <<>>
    /\ ret.value.policy_details.policy_number = <<>>
    /\ ret.value.exclusions = <<>>

\* C3: clean_content is idempotent: applied to its own result it returns
\* that result, also for texts with CIN and Trade Logo lines and runs of
\* spaces and newlines.
C3_CleanIdempotent ==
    \A i \in 2..Len(cleaned) : cleaned[i] = cleaned[i - 1]

\* clean_content was applied twice to a text with a CIN line and whitespace
\* to remove, and the first call changed the text.
C3_CleanedTwice ==
    /\ Len(cleaned) = MaxPasses
    /\ Search(CinLine, text).ok
    /\ cleaned[1] # text
    /\ cleaned[1] # <<>>
    /\ Len(cleaned[1]) + Len(<<"C","I","N",":"," ","U","6","6","0","3","0","M","H","\n">>) < Len(text)

\* C4: the list extract_exclusions returns never holds two equal strings,
\* holds every distinct item of the list before the duplicates were removed,
\* and orders them by first occurrence in that list.
C4_DedupeFirstOccurrence ==
    "exclusions" \in DOMAIN result =>
        LET r == result.exclusions
            FirstAt(x) == Min({k \in 1..Len(exclusions) : exclusions[k] = x})
        IN /\ \A i, j \in 1..Len(r) : r[i] = r[j] => i = j
           /\ Range(r) = Range(exclusions)
           /\ \A i, j \in 1..Len(r) : i < j => FirstAt(r[i]) < FirstAt(r[j])

\* The items before the duplicates were removed were [A, B, A], and the
\* list returned is [A, B].
C4_DuplicateRemoved ==
    /\ "exclusions" \in DOMAIN result
    /\ exclusions = <<<<"c","o","s","m","e","t","i","c"," ","s","u","r","g","e","r","y">>, <<"d","e","n","t","a","l"," ","t","r","e","a","t","m","e","n","t">>, <<"c","o","s","m","e","t","i","c"," ","s","u","r","g","e","r","y">>>>
    /\ result.exclusions = <<<<"c","o","s","m","e","t","i","c"," ","s","u","r","g","e","r","y">>, <<"d","e","n","t","a","l"," ","t","r","e","a","t","m","e","n","t">>>>

ListOf(heading) ==
    IF heading = BenefitsHeading THEN ret.value.coverage_details.risks_covered
    ELSE IF heading = ExclusionsHeading THEN ret.value.exclusions
    ELSE ret.value.claims_process.steps

\* C6: in risks_covered, exclusions and steps alike, a bulleted item of the
\* section whose trimmed length is exactly 10 is left out of the list and
\* one whose trimmed length is exactly 11 is in it.
C6_LengthBoundary ==
    Returned =>
        \A h \in Headings : \A ls \in SeqsUpTo(ItemLines, MaxItems) :
            Input(SectionDoc(h, ls, <<>>)) =>
                \A i \in 1..Len(ls) :
                    /\ Len(ls[i].body) = MinItemLen => ls[i].body \notin Range(ListOf(h))
                    /\ Len(ls[i].body) = MinItemLen + 1 => ls[i].body \in Range(ListOf(h))

\* C7: a "BENEFITS COVERED" heading followed by k items, each behind a
\* bullet glyph or an "N." ordinal and longer than 10 characters, yields
\* risks_covered equal to exactly those k items in document order.
C7_BenefitItems ==
    Returned =>
        \A ls \in SeqsUpTo(ItemLines, MaxItems) :
            (/\ Input(SectionDoc(BenefitsHeading, ls, <<>>))
             /\ \A i \in 1..Len(ls) : Len(ls[i].body) > MinItemLen)
            => ret.value.coverage_details.risks_covered = Bodies(ls)

\* C8: whatever the text holds, the returned record keeps the defaults of
\* the fields no rule populates: type "Health Insurance", additional_benefits
\* [], due_dates '', issue_date '' and expiry_date ''.
C8_UnpopulatedDefaults ==
    Returned =>
        /\ ret.value.coverage_details.type = <<"H","e","a","l","t","h"," ","I","n","s","u","r","a","n","c","e">>
        /\ ret.value.coverage_details.additional_benefits = <<>>
        /\ ret.value.premium_info.due_dates = <<>>
        /\ ret.value.policy_details.issue_date = <<>>
        /\ ret.value.policy_details.expiry_date = <<>>

\* A record was returned whose text populated the neighbouring fields.
C8_PopulatedRecord ==
    /\ Returned
    /\ ret.value.coverage_details.risks_covered # <<>>
    /\ ret.value.coverage_details.sum_assured # <<>>
    /\ ret.value.premium_info.amount # <<>>
    /\ ret.value.premium_info.grace_period # <<>>

\* C9: a "CLAIMS PROCESS" heading followed by bullet or ordinal items longer
\* than 10 characters yields steps equal to those items in order, and
\* contact and timeframe taken from that section.
C9_ClaimsSteps ==
    Returned =>
        \A ls \in SeqsUpTo(ItemLines, MaxItems) : \A tail \in {<<>>, ClaimsTail} :
            (/\ Input(SectionDoc(ClaimsHeading, ls, tail))
             /\ ls # <<>>
             /\ \A i \in 1..Len(ls) : Len(ls[i].body) > MinItemLen)
            => /\ ret.value.claims_process.steps = Bodies(ls)
               /\ tail = ClaimsTail =>
                    /\ ret.value.claims_process.contact # <<>>
                    /\ ret.value.claims_process.timeframe = <<"3","0"," ","d","a","y","s">>

\* C10: when the text has an "EXCLUSIONS" section with at least one bullet
\* or ordinal item longer than 10 characters, the result is exactly that
\* section's long items, deduplicated, with nothing from an inline phrase.
C10_SectionBeforeInline ==
    Returned =>
        \A ls \in SeqsUpTo(ItemLines, MaxItems) : \A tail \in {<<>>, InlineTail} :
            (/\ Input(SectionDoc(ExclusionsHeading, ls, tail))
             /\ \E i \in 1..Len(ls) : Len(ls[i].body) > MinItemLen)
            => ret.value.exclusions = Dedupe(SelectLong(Bodies(ls)))

\* C11: when the policy code pattern does not match and the text holds the
\* label "policy no" followed by an alphanumeric/hyphen token, the stored
\* policy_number is that token only, without the label.
C11_PolicyNumberToken ==
    Returned =>
        \A ls \in SeqsUpTo(PolicyLines, MaxLines) :
            (/\ Input(PolicyDoc(ls))
             /\ PolicyNoLine \in Range(ls)
             /\ PolicyCodeLine \notin Range(ls))
            => ret.value.policy_details.policy_number = <<"A","B","-","1","2">>

\* C12: when the insurer phrase pattern does not match and the text holds
\* the label "insurer:" followed by a name, the stored insurer_name is the
\* trimmed name after the label, not the label words.
C12_InsurerNameAfterLabel ==
    Returned =>
        \A ls \in SeqsUpTo(PolicyLines, MaxLines) :
            (/\ Input(PolicyDoc(ls))
             /\ ls # <<>>
             /\ ls[Len(ls)] = InsurerLabelLine
             /\ InsurerPhraseLine \notin Range(ls))
            => ret.value.policy_details.insurer_name = <<"A","c","m","e"," ","A","s","s","u","r","a","n","c","e">>

\* The match that decides a field with two candidate patterns: the first
\* pattern's match if it matches anywhere, else the second pattern's.
Deciding(ps, t) ==
    IF Search(ps[1], t).ok THEN Search(ps[1], t) ELSE Search(ps[2], t)

\* C13: for policy name, policy number, insurer name and insurer contact the
\* patterns are tried in their listed order and the first that matches
\* anywhere in the text decides the field: pattern 1's match if it matches,
\* also when pattern 2 matches earlier in the text; pattern 2's match only
\* when pattern 1 matches nowhere; '' when no pattern matches.  Stated of
\* the record extract_policy_details has just returned.
C13_ListedOrderDecides ==
    pc = "coverage_details" =>
        LET t == clean_content(raw_text)
            d == result.policy_details
        IN /\ d.policy_name = Strip(Group0Or(t, Deciding(policy_patterns, t)))
           /\ d.policy_number = Group0Or(t, Deciding(policy_number_patterns, t))
           /\ d.insurer_name = Strip(GroupNOr(t, Deciding(insurer_patterns, t), 1))
           /\ d.insurer_contact = Strip(GroupNOr(t, Deciding(policy_contact_patterns, t), 1))

\* "Policy No: AB-12" stands before "HDHHLIP21V01": both patterns match, the
\* second earlier in the text, and the first decides the policy number; the
\* other three fields, which no pattern matches, are ''.
C13_SecondMatchesEarlier ==
    /\ Returned
    /\ Input(PolicyDoc(<<PolicyNoLine, PolicyCodeLine>>))
    /\ Search(policy_number_patterns[2], clean_content(raw_text)).start
         < Search(policy_number_patterns[1], clean_content(raw_text)).start
    /\ ret.value.policy_details.policy_number = <<"H","D","H","H","L","I","P","2","1","V","0","1">>
    /\ ret.value.policy_details.insurer_name = <<>>

\* C14: every temporary file a POST /process-brochure request created is
\* deleted by the time the request completes, whatever its outcome; no
\* sequence of requests leaves a temporary file behind.
C14_NoTempFileLeft ==
    request.at = "idle" =>
        \A n \in 1..MaxRequests : TempName(n) \notin DOMAIN files

====
